---- MODULE Spec2Model ----
(***************************************************************************)
(* Model of internal/server/TLS.go of Cloak: the ClientHello parser, the   *)
(* key_share extractor, the ServerHello composer and PrepareConnection     *)
(* with the finisher closure it returns.  Byte slices are sequences of     *)
(* integers in 0..255; Go's 0-based half-open slice s[lo:hi] is            *)
(* Slice(s, lo, hi).  A runtime panic is an explicit outcome that each     *)
(* function's deferred recover turns into that function's error.           *)
(***************************************************************************)
EXTENDS Integers, Sequences, FiniteSets, TLC

VARIABLES pc, firstPacket, ts, ch, sharedSecret, err, returned,
          touchCalls, bookLookups, calls, closePending, closeCalls,
          input, output

vars == <<pc, firstPacket, ts, ch, sharedSecret, err, returned,
          touchCalls, bookLookups, calls, closePending, closeCalls,
          input, output>>

connVars == <<pc, firstPacket, ts, ch, sharedSecret, err, returned,
              touchCalls, bookLookups, calls, closePending, closeCalls>>

-----------------------------------------------------------------------------
(* Bounds of the model *)

\* how many times the returned finisher is invoked at most
MaxCalls == 2
\* how many entries a generated key_share body holds at most
MaxEntries == 3
\* how many extensions a generated extension block holds at most
MaxExts == 2

-----------------------------------------------------------------------------
(* Bytes *)

\* length of ClientHello.random, of the shared secret and the session key
KeyLen == 32

Rep(n, b) == [i \in 1..n |-> b]

Ramp(n, b) == [i \in 1..n |-> (b + i) % 256]

\* Go's s[lo:hi] is in range iff 0 <= lo <= hi <= cap(s); every slice taken
\* here is taken of a buffer whose capacity is its length
InRange(s, lo, hi) == 0 <= lo /\ lo <= hi /\ hi <= Len(s)

Slice(s, lo, hi) == SubSeq(s, lo + 1, hi)

u16(b) == b[1] * 256 + b[2]

u32(b) == ((b[1] * 256 + b[2]) * 256 + b[3]) * 256 + b[4]

PutUint16(v) == << (v \div 256) % 256, v % 256 >>

\* what u24 the builder of test packets writes
PutUint24(v) == << (v \div 65536) % 256, (v \div 256) % 256, v % 256 >>

RECURSIVE XorBits(_, _, _)
XorBits(a, b, n) ==
    IF n = 0 THEN 0
    ELSE (((a % 2) + (b % 2)) % 2) + 2 * XorBits(a \div 2, b \div 2, n - 1)

\* the mutant of XorByte: | instead of ^
RECURSIVE OrBits(_, _, _)
OrBits(a, b, n) ==
    IF n = 0 THEN 0
    ELSE (IF (a % 2) + (b % 2) > 0 THEN 1 ELSE 0) + 2 * OrBits(a \div 2, b \div 2, n - 1)

OrByte(a, b) == OrBits(a, b, 8)

\* a[i] ^ b[i] on bytes
XorByte(a, b) == XorBits(a, b, 8)

\* xor(a, b): a[i] ^= b[i] for i in range a.  The value is a's content after
\* the call: the caller's buffer is changed in place.
xor(a, b) == [i \in 1..Len(a) |-> XorByte(a[i], b[i])]

\* copy(dst, src) into a zeroed dst of n bytes
Copy(n, src) == [i \in 1..n |-> IF i <= Len(src) THEN src[i] ELSE 0]

-----------------------------------------------------------------------------
(* parseExtensions *)

EmptyMap == [k \in {} |-> <<>>]

\* the loop of parseExtensions; a panic leaves the named result ret as the
\* loop has filled it so far
RECURSIVE parseExtensionsLoop(_, _, _)
parseExtensionsLoop(in, pointer, ret) ==
    IF ~(pointer < Len(in)) THEN [panic |-> FALSE, ret |-> ret]
    ELSE IF ~InRange(in, pointer, pointer + 2) THEN [panic |-> TRUE, ret |-> ret]
    ELSE IF ~InRange(in, pointer + 2, pointer + 4) THEN [panic |-> TRUE, ret |-> ret]
    ELSE LET typ    == Slice(in, pointer, pointer + 2)
             length == u16(Slice(in, pointer + 2, pointer + 4))
         IN  IF ~InRange(in, pointer + 4, pointer + 4 + length)
             THEN [panic |-> TRUE, ret |-> ret]
             ELSE parseExtensionsLoop(in, pointer + 4 + length,
                      (typ :> Slice(in, pointer + 4, pointer + 4 + length)) @@ ret)

parseExtensions(in) ==
    LET r == parseExtensionsLoop(in, 0, EmptyMap)
    IN  [ret |-> r.ret, err |-> IF r.panic THEN "Malformed Extensions" ELSE ""]

-----------------------------------------------------------------------------
(* parseKeyShare *)

X25519 == <<0, 29>>

\* the mutant of KeyShareLoopCond: the bound taken two bytes too early
KeyShareLoopCondEarly(pointer, totalLen) == pointer + 2 < totalLen

\* for pointer < totalLen
KeyShareLoopCond(pointer, totalLen) == pointer < totalLen

KsPanic == [panic |-> TRUE, ret |-> <<>>, isNil |-> TRUE, err |-> ""]

RECURSIVE parseKeyShareLoop(_, _, _)
parseKeyShareLoop(in, pointer, totalLen) ==
    IF ~KeyShareLoopCond(pointer, totalLen)
    THEN [panic |-> FALSE, ret |-> <<>>, isNil |-> TRUE, err |-> "x25519 does not exist"]
    ELSE IF ~InRange(in, pointer, pointer + 2) THEN KsPanic
    ELSE IF ~InRange(in, pointer + 2, pointer + 4) THEN KsPanic
    ELSE LET length == u16(Slice(in, pointer + 2, pointer + 4))
         IN  IF Slice(in, pointer, pointer + 2) = X25519
             THEN IF length # KeyLen
                  THEN [panic |-> FALSE, ret |-> <<>>, isNil |-> TRUE,
                        err |-> "key share length should be 32"]
                  ELSE IF ~InRange(in, pointer + 4, pointer + 4 + length) THEN KsPanic
                  ELSE [panic |-> FALSE, isNil |-> FALSE, err |-> "",
                        ret |-> Slice(in, pointer + 4, pointer + 4 + length)]
             ELSE IF ~InRange(in, pointer + 4, pointer + 4 + length) THEN KsPanic
                  ELSE parseKeyShareLoop(in, pointer + 4 + length, totalLen)

parseKeyShare(in) ==
    LET r == IF ~InRange(in, 0, 2) THEN KsPanic
             ELSE parseKeyShareLoop(in, 2, u16(Slice(in, 0, 2)))
    IN  IF r.panic
        THEN [panic |-> FALSE, ret |-> <<>>, isNil |-> TRUE, err |-> "malformed key_share"]
        ELSE r

-----------------------------------------------------------------------------
(* addRecordLayer *)

\* the mutant of RecordLength: the length of the whole record, header included
RecordLengthWithHeader(in) == PutUint16((Len(in) + 5) % 65536)

\* binary.BigEndian.PutUint16(length, uint16(len(input)))
RecordLength(in) == PutUint16(Len(in) % 65536)

addRecordLayer(in, typ, ver) ==
    Copy(1, typ) \o Copy(2, ver) \o Copy(2, RecordLength(in)) \o in

-----------------------------------------------------------------------------
(* parseClientHello *)

NilHello == [nil |-> TRUE]

ChPanic == [panic |-> TRUE, ret |-> NilHello, err |-> ""]

ChReturn(ret, e) == [panic |-> FALSE, ret |-> ret, err |-> e]

\* lines 132-160, from the cipher suites on
parseClientHelloTail(peeled, p0, head) ==
    IF ~InRange(peeled, p0, p0 + 2) THEN ChPanic
    ELSE LET cipherSuitesLen == u16(Slice(peeled, p0, p0 + 2))
             p1 == p0 + 2
         IN
    IF ~InRange(peeled, p1, p1 + cipherSuitesLen) THEN ChPanic
    ELSE LET p2 == p1 + cipherSuitesLen IN
    IF ~InRange(peeled, p2, p2 + 1) THEN ChPanic
    ELSE LET compressionMethodsLen == peeled[p2 + 1]
             p3 == p2 + 1
         IN
    IF ~InRange(peeled, p3, p3 + compressionMethodsLen) THEN ChPanic
    ELSE LET p4 == p3 + compressionMethodsLen IN
    IF ~InRange(peeled, p4, p4 + 2) THEN ChPanic
    ELSE LET extensionsLen == u16(Slice(peeled, p4, p4 + 2))
             p5 == p4 + 2
             ex == parseExtensions(Slice(peeled, p5, Len(peeled)))
         IN  ChReturn(
               head @@
               [cipherSuitesLen       |-> cipherSuitesLen,
                cipherSuites          |-> Slice(peeled, p1, p1 + cipherSuitesLen),
                compressionMethodsLen |-> compressionMethodsLen,
                compressionMethods    |-> Slice(peeled, p3, p3 + compressionMethodsLen),
                extensionsLen         |-> extensionsLen,
                extensions            |-> ex.ret],
               ex.err)

\* the function body, lines 106-160, before the deferred recover
parseClientHelloBody(data) ==
    IF Len(data) - 5 < 0 THEN ChPanic
    ELSE LET peeled == Slice(data, 5, Len(data)) IN
    IF ~InRange(peeled, 0, 1) THEN ChPanic
    ELSE IF peeled[1] # 1 THEN ChReturn(NilHello, "Not a ClientHello")
    ELSE IF ~InRange(peeled, 1, 4) THEN ChPanic
    ELSE LET length == u32(<<0>> \o Slice(peeled, 1, 4)) IN
    IF length # Len(Slice(peeled, 4, Len(peeled)))
    THEN ChReturn(NilHello, "Hello length doesn't match")
    ELSE IF ~InRange(peeled, 4, 6) THEN ChPanic
    ELSE IF ~InRange(peeled, 6, 38) THEN ChPanic
    ELSE IF ~InRange(peeled, 38, 39) THEN ChPanic
    ELSE LET sessionIdLen == peeled[39] IN
    IF ~InRange(peeled, 39, 39 + sessionIdLen) THEN ChPanic
    ELSE parseClientHelloTail(peeled, 39 + sessionIdLen,
             [nil           |-> FALSE,
              handshakeType |-> peeled[1],
              length        |-> length,
              clientVersion |-> Slice(peeled, 4, 6),
              random        |-> Slice(peeled, 6, 38),
              sessionIdLen  |-> sessionIdLen,
              sessionId     |-> Slice(peeled, 39, 39 + sessionIdLen)])

\* the mutant of parseClientHello: no deferred recover
parseClientHelloNoRecover(data) == parseClientHelloBody(data)

\* panic is TRUE when a runtime fault leaves the function
parseClientHello(data) ==
    LET r == parseClientHelloBody(data)
    IN  IF r.panic THEN ChReturn(r.ret, "Malformed ClientHello") ELSE r

-----------------------------------------------------------------------------
(* composeServerHello, composeReply *)

TLS12 == <<3, 3>>

\* hex 00330024001d0020
KeyShareHeader == <<0, 51, 0, 36, 0, 29, 0, 32>>

\* hex 002b00020304
SupportedVersions == <<0, 43, 0, 2, 3, 4>>

\* keyExchange is what rand.Read filled.  ret is the message; sharedSecret is
\* the content of the caller's sharedSecret buffer when the call returns:
\* xor works in place and serverHello[3] is that same buffer.
composeServerHello(sessionId, secret, sessionKey, keyExchange) ==
    LET masked == xor(secret, sessionKey)
    IN  [ret |-> <<2>> \o <<0, 0, 118>> \o <<3, 3>>
                 \o masked
                 \o <<32>> \o sessionId
                 \o <<192, 48>> \o <<0>> \o <<0, 46>>
                 \o (KeyShareHeader \o keyExchange)
                 \o SupportedVersions,
         sharedSecret |-> masked]

composeReply(hello, secret, sessionKey, keyExchange) ==
    LET sh       == composeServerHello(hello.sessionId, secret, sessionKey, keyExchange)
        shBytes  == addRecordLayer(sh.ret, <<22>>, TLS12)
        ccsBytes == addRecordLayer(<<1>>, <<20>>, TLS12)
    IN  [ret |-> shBytes \o ccsBytes, sharedSecret |-> sh.sharedSecret]

-----------------------------------------------------------------------------
(* Inputs: key_share bodies *)

\* a named group that is not x25519 (secp256r1)
OtherGroup == <<0, 23>>

EntryPool == [group : {X25519, OtherGroup}, klen : {0, 1, KeyLen, KeyLen + 1}]

EntrySeqs(n) == UNION {[1..k -> EntryPool] : k \in 0..n}

\* entry i of a body: group(2), len(2), then klen bytes that depend on i
EncodeEntry(e, i) == e.group \o PutUint16(e.klen) \o Ramp(e.klen, 16 * i)

RECURSIVE EncodeEntries(_, _)
EncodeEntries(es, i) ==
    IF i > Len(es) THEN <<>> ELSE EncodeEntry(es[i], i) \o EncodeEntries(es, i + 1)

\* totalLen(2) declared d more than the entries take, then the entries
KsBody(es, d) ==
    LET b == EncodeEntries(es, 1) IN PutUint16(Len(b) + d) \o b

DropLast(s) == SubSeq(s, 1, Len(s) - 1)

KeyShareInputs ==
    {KsBody(es, 0) : es \in EntrySeqs(MaxEntries)}
    \cup {KsBody(es, d) : es \in EntrySeqs(1), d \in {2, 4, 40}}
    \cup {DropLast(KsBody(es, 0)) : es \in EntrySeqs(2)}
    \cup {<<>>, <<0>>}

-----------------------------------------------------------------------------
(* Inputs: extension blocks and ClientHello packets *)

\* a client key_share extension body holding one x25519 entry
ClientKeyShare == KsBody(<<[group |-> X25519, klen |-> KeyLen]>>, 0)

ExtPool == {[typ |-> <<0, 51>>, body |-> ClientKeyShare],
            [typ |-> <<0, 0>>,  body |-> <<1, 2, 3>>],
            [typ |-> <<0, 43>>, body |-> <<2, 3, 4>>]}

ExtSeqs(n) == UNION {[1..k -> ExtPool] : k \in 0..n}

RECURSIVE EncodeExts(_, _)
EncodeExts(xs, i) ==
    IF i > Len(xs) THEN <<>>
    ELSE xs[i].typ \o PutUint16(Len(xs[i].body)) \o xs[i].body \o EncodeExts(xs, i + 1)

ExtBlocks(n) ==
    LET good == {EncodeExts(xs, 1) : xs \in ExtSeqs(n)}
    IN  good \cup {b \o <<0>> : b \in good} \cup {DropLast(b) : b \in good \ {<<>>}}

\* a first packet: record header, handshake header, then the fields with the
\* declared lengths written as given, whatever the fields really hold
BuildHello(f) ==
    LET body == <<3, 3>> \o Ramp(KeyLen, 0)
                \o <<f.sidDecl>> \o f.sid
                \o PutUint16(f.csDecl) \o f.cs
                \o <<f.cmDecl>> \o f.cm
                \o PutUint16(f.extDecl) \o f.ext
    IN  <<22, 3, 1>> \o PutUint16(Len(body) + 4)
        \o <<f.typ>> \o PutUint24(Len(body) + f.lenAdj) \o body

SessionIds == {<<>>, <<7>>, Rep(KeyLen, 170), Rep(KeyLen + 1, 187)}

CipherSuites == {<<>>, <<19, 1, 19, 2>>}

\* a ClientHello whose every declared length is the field's length, but for
\* extDecl, which is off by dx
Hello(sid, cs, ext, dx) ==
    BuildHello([typ |-> 1, lenAdj |-> 0,
                sidDecl |-> Len(sid), sid |-> sid,
                csDecl |-> Len(cs), cs |-> cs,
                cmDecl |-> 1, cm |-> <<0>>,
                extDecl |-> Len(ext) + dx, ext |-> ext])

WellFormedHellos ==
    {Hello(sid, cs, EncodeExts(xs, 1), 0) :
        sid \in SessionIds, cs \in CipherSuites, xs \in ExtSeqs(1)}

ParseInputs ==
    {Hello(sid, cs, ext, dx) :
        sid \in SessionIds, cs \in CipherSuites, ext \in ExtBlocks(MaxExts),
        dx \in {0, 1, 300}}
    \cup {BuildHello([typ |-> t[1], lenAdj |-> t[2],
                      sidDecl |-> Len(sid) + ds, sid |-> sid,
                      csDecl |-> Len(cs) + dc, cs |-> cs,
                      cmDecl |-> 1 + dm, cm |-> <<0>>,
                      extDecl |-> Len(ext), ext |-> ext]) :
            t \in {<<1, 0>>, <<1, 1>>, <<1, -1>>, <<2, 0>>},
            sid \in SessionIds, ds \in {0, 1, 200},
            cs \in CipherSuites, dc \in {0, 2, 1000}, dm \in {0, 1, 100},
            ext \in ExtBlocks(0)}
    \cup {SubSeq(h, 1, n) : h \in {Hello(<<>>, <<>>, <<>>, 0)}, n \in 0..50}

-----------------------------------------------------------------------------
(* The pure functions applied to drawn inputs *)

NoOutput == [fn |-> "none"]

Idle ==
    /\ pc = "idle" /\ firstPacket = <<>> /\ ts = [called |-> FALSE]
    /\ ch = NilHello /\ sharedSecret = <<>> /\ err = ""
    /\ returned = [err |-> "", finisher |-> FALSE]
    /\ touchCalls = 0 /\ bookLookups = 0 /\ calls = <<>>
    /\ closePending = 0 /\ closeCalls = 0

InitParse == Idle /\ input \in ParseInputs /\ output = NoOutput

ApplyParseClientHello ==
    /\ pc = "idle" /\ output = NoOutput
    /\ output' = [fn |-> "parseClientHello", r |-> parseClientHello(input)]
    /\ UNCHANGED <<connVars, input>>

SpecParse == InitParse /\ [][ApplyParseClientHello]_vars

InitKeyShare == Idle /\ input \in KeyShareInputs /\ output = NoOutput

ApplyParseKeyShare ==
    /\ pc = "idle" /\ output = NoOutput
    /\ output' = [fn |-> "parseKeyShare", r |-> parseKeyShare(input)]
    /\ UNCHANGED <<connVars, input>>

SpecKeyShare == InitKeyShare /\ [][ApplyParseKeyShare]_vars

-----------------------------------------------------------------------------
(* Claims about parseClientHello *)

\* the input carries a handshake type 0x01 and a 3-byte length that differs
\* from the number of bytes after it
LengthMismatch(data) ==
    /\ Len(data) >= 9
    /\ data[6] = 1
    /\ u32(<<0>> \o Slice(data, 6, 9)) # Len(data) - 9

\* C4: whatever the input bytes, parseClientHello returns normally (no fault
\* leaves it) with a ClientHello or an error, and a ClientHello (type 0x01)
\* whose declared 3-byte length differs from the number of bytes that follow
\* gets an error and no ClientHello.
C4_ParseNeverFaults ==
    output.fn = "parseClientHello" =>
        /\ ~output.r.panic
        /\ (~output.r.ret.nil \/ output.r.err # "")
        /\ LengthMismatch(input) => (output.r.err # "" /\ output.r.ret.nil)

C4_Witness ==
    /\ output.fn = "parseClientHello"
    /\ LengthMismatch(input)
    /\ output.r.err = "Hello length doesn't match"
    /\ output.r.ret.nil

\* bytes left in the buffer after each of the four length prefixes, for an
\* accepted ClientHello h parsed from data
RemainingAfterSessionIdLen(data) == (Len(data) - 5) - 39

RemainingAfterCipherSuitesLen(data, h) ==
    RemainingAfterSessionIdLen(data) - h.sessionIdLen - 2

RemainingAfterCompressionLen(data, h) ==
    RemainingAfterCipherSuitesLen(data, h) - h.cipherSuitesLen - 1

RemainingAfterExtensionsLen(data, h) ==
    RemainingAfterCompressionLen(data, h) - h.compressionMethodsLen - 2

\* the three length prefixes the parser slices by stay within the buffer
SlicedLengthsWithinBuffer ==
    (output.fn = "parseClientHello" /\ output.r.err = "") =>
        LET h == output.r.ret IN
        /\ h.sessionIdLen <= RemainingAfterSessionIdLen(input)
        /\ h.cipherSuitesLen <= RemainingAfterCipherSuitesLen(input, h)
        /\ h.compressionMethodsLen <= RemainingAfterCompressionLen(input, h)

\* C10: every ClientHello returned without error has sessionIdLen,
\* cipherSuitesLen, compressionMethodsLen and extensionsLen each no greater
\* than the bytes that remained after that length prefix.
C10_DeclaredLengthsWithinBuffer ==
    (output.fn = "parseClientHello" /\ output.r.err = "") =>
        LET h == output.r.ret IN
        /\ h.sessionIdLen <= RemainingAfterSessionIdLen(input)
        /\ h.cipherSuitesLen <= RemainingAfterCipherSuitesLen(input, h)
        /\ h.compressionMethodsLen <= RemainingAfterCompressionLen(input, h)
        /\ h.extensionsLen <= RemainingAfterExtensionsLen(input, h)

-----------------------------------------------------------------------------
(* Claims about parseKeyShare *)

\* the entries of a body read strictly by its format: from offset 2 to
\* offset 2 + totalLen, each entry whole
RECURSIVE RefEntries(_, _, _)
RefEntries(in, p, end) ==
    IF p = end THEN [ok |-> TRUE, es |-> <<>>]
    ELSE IF p + 4 > end THEN [ok |-> FALSE, es |-> <<>>]
    ELSE LET n == u16(Slice(in, p + 2, p + 4)) IN
         IF p + 4 + n > end THEN [ok |-> FALSE, es |-> <<>>]
         ELSE LET rest == RefEntries(in, p + 4 + n, end)
              IN  [ok |-> rest.ok,
                   es |-> <<[group |-> Slice(in, p, p + 2),
                             key   |-> Slice(in, p + 4, p + 4 + n)]>> \o rest.es]

\* totalLen(2) followed by entries whose combined size is totalLen
LaidOut(in) ==
    /\ Len(in) >= 2
    /\ Len(in) = 2 + u16(Slice(in, 0, 2))
    /\ RefEntries(in, 2, Len(in)).ok

X25519Entries(es) == {i \in 1..Len(es) : es[i].group = X25519}

FirstOf(S) == CHOOSE i \in S : \A j \in S : i <= j

\* C5: on a body laid out as totalLen(2) and entries of combined size
\* totalLen, parseKeyShare returns the 32 bytes of the first 0x001d entry
\* wherever it sits, fails with the length error when that entry's length is
\* not 32, and fails with "x25519 does not exist" when there is none.
C5_KeyShareExtraction ==
    (output.fn = "parseKeyShare" /\ LaidOut(input)) =>
        LET es == RefEntries(input, 2, Len(input)).es
            xs == X25519Entries(es)
            r  == output.r
        IN  IF xs = {}
            THEN r.isNil /\ r.err = "x25519 does not exist"
            ELSE IF Len(es[FirstOf(xs)].key) = KeyLen
                 THEN ~r.isNil /\ r.err = "" /\ r.ret = es[FirstOf(xs)].key
                 ELSE r.isNil /\ r.err = "key share length should be 32"

\* the x25519 entry is the last of several and is found
C5_Witness ==
    /\ output.fn = "parseKeyShare"
    /\ LaidOut(input)
    /\ LET es == RefEntries(input, 2, Len(input)).es
       IN  /\ Len(es) >= 2
           /\ X25519Entries(es) = {Len(es)}
           /\ ~output.r.isNil
           /\ output.r.ret = es[Len(es)].key

-----------------------------------------------------------------------------
(* PrepareConnection and the finisher it returns *)

ErrBadClientHello == "non (or malformed) ClientHello"
ErrNotCloak == "TLS but non-Cloak ClientHello"
ErrBadProxyMethod == "invalid proxy method"

\* the keys of sta.ProxyBook
ProxyBook == {"shadowsocks", "openvpn"}

Secrets == {Ramp(KeyLen, 0), Rep(KeyLen, 165)}

\* what TouchStone may return: an error, or a proxy method and a 32-byte
\* shared secret
TouchOutcomes ==
    [called : {TRUE}, fail : {TRUE}, proxyMethod : {"", "shadowsocks"},
     sharedSecret : {<<>>}]
    \cup [called : {TRUE}, fail : {FALSE}, proxyMethod : {"shadowsocks", "tor"},
          sharedSecret : Secrets]

\* the session keys the finisher is invoked with
SessionKeys == {Ramp(KeyLen, 100), Rep(KeyLen, 255)}

\* what rand.Read may fill keyExchange with
KeyExchanges == {Rep(KeyLen, 17), Ramp(KeyLen, 200)}

\* what conn.Write may return
WriteErrors == {"", "write failed"}

ConnPackets ==
    {Hello(sid, <<19, 1, 19, 2>>,
           EncodeExts(<<[typ |-> <<0, 51>>, body |-> ClientKeyShare]>>, 1), 0) :
        sid \in SessionIds}
    \cup {<<>>,
          <<22, 3, 1, 0, 0>>,
          DropLast(Hello(<<>>, <<>>, <<>>, 0)),
          Hello(<<7>>, <<>>, <<0, 0, 0>>, 0),
          BuildHello([typ |-> 2, lenAdj |-> 0, sidDecl |-> 0, sid |-> <<>>,
                      csDecl |-> 0, cs |-> <<>>, cmDecl |-> 1, cm |-> <<0>>,
                      extDecl |-> 0, ext |-> <<>>])}

Init ==
    /\ pc = "start"
    /\ firstPacket \in ConnPackets
    /\ ts = [called |-> FALSE]
    /\ ch = NilHello
    /\ sharedSecret = <<>>
    /\ err = ""
    /\ returned = [err |-> "", finisher |-> FALSE]
    /\ touchCalls = 0 /\ bookLookups = 0
    /\ calls = <<>>
    /\ closePending = 0 /\ closeCalls = 0
    /\ input = <<>> /\ output = NoOutput

\* the mutant of ParseRejected: tests the returned ClientHello, not the error
ParseRejectedByNil(p) == p.ret.nil

\* if err != nil, after parseClientHello
ParseRejected(p) == p.err # ""

\* the mutant of ProxyOk: the registry is not asked
ProxyOkAlways(proxyMethod) == TRUE

\* _, ok := sta.ProxyBook[proxyMethod]
ProxyOk(proxyMethod) == proxyMethod \in ProxyBook

Return(e, fin, next) ==
    /\ err' = e
    /\ returned' = [err |-> e, finisher |-> fin]
    /\ pc' = next

PrepareConnection ==
    /\ pc = "start"
    /\ LET p == parseClientHello(firstPacket) IN
       /\ ch' = p.ret
       /\ IF ParseRejected(p)
          THEN /\ Return(ErrBadClientHello, FALSE, "rejected")
               /\ UNCHANGED <<ts, sharedSecret, touchCalls, bookLookups>>
          ELSE \E t \in TouchOutcomes :
               /\ ts' = t
               /\ touchCalls' = touchCalls + 1
               /\ sharedSecret' = t.sharedSecret
               /\ IF t.fail
                  THEN /\ Return(ErrNotCloak, FALSE, "rejected")
                       /\ UNCHANGED bookLookups
                  ELSE /\ bookLookups' = bookLookups + 1
                       /\ IF ~ProxyOk(t.proxyMethod)
                          THEN Return(ErrBadProxyMethod, FALSE, "rejected")
                          ELSE Return("", TRUE, "prepared")
    /\ UNCHANGED <<firstPacket, calls, closePending, closeCalls, input, output>>

\* the mutant of CloseSpawned: the failed write leaves the connection open
CloseNeverSpawned(writeErr) == 0

\* if err != nil { go conn.Close() ... }: the goroutines one invocation starts
CloseSpawned(writeErr) == IF writeErr # "" THEN 1 ELSE 0

\* if err != nil { ...; return err }; return nil
FinisherReturn(writeErr) == IF writeErr # "" THEN writeErr ELSE ""

\* one invocation of the finisher, to its return.  err is the variable of
\* PrepareConnection that the closure captured and assigns.
Finisher(sessionKey, keyExchange, writeErr) ==
    /\ pc = "prepared"
    /\ returned.finisher
    /\ Len(calls) < MaxCalls
    /\ LET reply == composeReply(ch, sharedSecret, sessionKey, keyExchange) IN
       /\ sharedSecret' = reply.sharedSecret
       /\ err' = writeErr
       /\ calls' = Append(calls, [sessionKey |-> sessionKey,
                                  secretIn   |-> sharedSecret,
                                  reply      |-> reply.ret,
                                  writeErr   |-> writeErr,
                                  ret        |-> FinisherReturn(writeErr)])
       /\ closePending' = closePending + CloseSpawned(writeErr)
    /\ UNCHANGED <<pc, firstPacket, ts, ch, returned, touchCalls, bookLookups,
                   closeCalls, input, output>>

\* the goroutine of go conn.Close()
CloseGoroutine ==
    /\ closePending > 0
    /\ closePending' = closePending - 1
    /\ closeCalls' = closeCalls + 1
    /\ UNCHANGED <<pc, firstPacket, ts, ch, sharedSecret, err, returned,
                   touchCalls, bookLookups, calls, input, output>>

Next ==
    \/ PrepareConnection
    \/ \E k \in SessionKeys, x \in KeyExchanges, w \in WriteErrors : Finisher(k, x, w)
    \/ CloseGoroutine

Spec == Init /\ [][Next]_vars

\* a started goroutine runs
FairSpec == Spec /\ WF_vars(CloseGoroutine)

-----------------------------------------------------------------------------
(* Claims about PrepareConnection *)

\* C1: PrepareConnection reports exactly one outcome, in this order: a parse
\* failure gives ErrBadClientHello and TouchStone is not invoked; else a
\* TouchStone failure gives ErrNotCloak and the registry is not consulted;
\* else an unknown proxy method gives ErrBadProxyMethod; else the error is
\* nil and a finisher is returned.  Every error outcome returns no finisher.
C1_PrepareOutcome ==
    pc \in {"prepared", "rejected"} =>
        IF parseClientHello(firstPacket).err # ""
        THEN /\ returned.err = ErrBadClientHello /\ ~returned.finisher
             /\ touchCalls = 0 /\ bookLookups = 0
        ELSE /\ touchCalls = 1
             /\ IF ts.fail
                THEN /\ returned.err = ErrNotCloak /\ ~returned.finisher
                     /\ bookLookups = 0
                ELSE IF ts.proxyMethod \notin ProxyBook
                THEN returned.err = ErrBadProxyMethod /\ ~returned.finisher
                ELSE returned.err = "" /\ returned.finisher

\* parsed, authenticated, and the proxy method is unknown
C1_Witness ==
    /\ pc = "rejected"
    /\ returned.err = ErrBadProxyMethod
    /\ touchCalls = 1 /\ bookLookups = 1
    /\ ~returned.finisher

\* C2: bytes are written to the connection only by the finisher, so only
\* after the packet parsed, TouchStone succeeded and the proxy method was in
\* the registry; a rejected first packet never has bytes written.
C2_WriteOnlyAfterChecks ==
    /\ calls # <<>> =>
        /\ returned.finisher /\ returned.err = ""
        /\ parseClientHello(firstPacket).err = ""
        /\ ts.called /\ ~ts.fail /\ ts.proxyMethod \in ProxyBook
    /\ pc = "rejected" => calls = <<>>

C2_Witness ==
    /\ Len(calls) >= 1
    /\ calls[1].writeErr = ""
    /\ Len(calls[1].reply) > 0

-----------------------------------------------------------------------------
(* Claims about the composed reply *)

\* the ServerHello inside a reply: the payload of its first record
ServerHelloOf(reply) == Slice(reply, 5, 5 + u16(Slice(reply, 3, 5)))

\* the bytes at offsets 6..37 of a ServerHello
RandomOf(sh) == Slice(sh, 6, 38)

Bit(x, k) == (x \div (2 ^ k)) % 2

\* c is a XOR b, bit by bit
IsXor(c, a, b) ==
    /\ Len(c) = Len(a) /\ Len(a) = Len(b)
    /\ \A i \in 1..Len(c) :
        /\ c[i] \in 0..255
        /\ \A k \in 0..7 : (Bit(c[i], k) = 1) <=> (Bit(a[i], k) # Bit(b[i], k))

\* C3: the random field (offsets 6..37) of composeServerHello(sessionId, S, K)
\* is S XOR K for the 32-byte S passed in and K, and XOR-ing it with S gives K.
C3_RandomIsSecretXorKey ==
    \A i \in 1..Len(calls) :
        LET rnd == RandomOf(ServerHelloOf(calls[i].reply)) IN
        /\ Len(rnd) = KeyLen
        /\ IsXor(rnd, calls[i].secretIn, calls[i].sessionKey)
        /\ IsXor(calls[i].sessionKey, rnd, calls[i].secretIn)

C3_Witness ==
    /\ Len(calls) >= 1
    /\ calls[1].secretIn = Ramp(KeyLen, 0)
    /\ calls[1].sessionKey = Ramp(KeyLen, 100)
    /\ RandomOf(ServerHelloOf(calls[1].reply)) # calls[1].secretIn

\* C6 as the spec words it: with a 32-byte session id the reply starts
\* 16 03 03 00 4C, then 02 00 00 76.
C6_ReplyPrefixAsClaimed ==
    (~ch.nil /\ Len(ch.sessionId) = KeyLen) =>
        \A i \in 1..Len(calls) :
            /\ Slice(calls[i].reply, 0, 5) = <<22, 3, 3, 0, 76>>
            /\ Slice(calls[i].reply, 5, 9) = <<2, 0, 0, 118>>

\* C6, amended: with a 32-byte session id the reply starts 16 03 03 00 7A
\* (a handshake record of 122 bytes), then the ServerHello 02 00 00 76.
C6_ReplyPrefix ==
    (~ch.nil /\ Len(ch.sessionId) = KeyLen) =>
        \A i \in 1..Len(calls) :
            /\ Slice(calls[i].reply, 0, 5) = <<22, 3, 3, 0, 122>>
            /\ Slice(calls[i].reply, 5, 9) = <<2, 0, 0, 118>>

C6_Witness ==
    /\ ~ch.nil
    /\ Len(ch.sessionId) = KeyLen
    /\ Len(calls) >= 1
    /\ Slice(calls[1].reply, 0, 5) = <<22, 3, 3, 0, 122>>

\* C9: the ServerHello composed from any accepted ClientHello is consistent
\* in its lengths: the 3-byte handshake length counts the bytes after it, the
\* session-id length byte is the length of the echoed session id, and the
\* extensions length counts the extension bytes after it.
C9_ServerHelloLengthsConsistent ==
    \A i \in 1..Len(calls) :
        LET sh == ServerHelloOf(calls[i].reply)
            n  == Len(ch.sessionId)
        IN  /\ u32(<<0>> \o Slice(sh, 1, 4)) = Len(sh) - 4
            /\ sh[39] = n
            /\ u16(Slice(sh, 39 + n + 3, 39 + n + 5)) = Len(sh) - (39 + n + 5)

\* with a session id of exactly 32 bytes the three lengths do agree
ServerHelloLengthsConsistentFor32 ==
    (~ch.nil /\ Len(ch.sessionId) = KeyLen) => C9_ServerHelloLengthsConsistent

\* C8: invoking the finisher leaves what it captured as it was: the shared
\* secret stays the one TouchStone returned and the ClientHello stays the
\* parsed one, so every reply's random field is that secret XOR the session
\* key of the invocation.
C8_FinisherKeepsCapturedState ==
    returned.finisher =>
        /\ sharedSecret = ts.sharedSecret
        /\ ch = parseClientHello(firstPacket).ret
        /\ \A i \in 1..Len(calls) :
            IsXor(RandomOf(ServerHelloOf(calls[i].reply)),
                  ts.sharedSecret, calls[i].sessionKey)

-----------------------------------------------------------------------------
(* Claims about the failed write *)

FailedCalls == {i \in 1..Len(calls) : calls[i].writeErr # ""}

C7_Safety ==
    /\ \A i \in 1..Len(calls) : calls[i].ret = calls[i].writeErr
    /\ closePending + closeCalls = Cardinality(FailedCalls)

\* C7: a failed write makes the finisher return the write error at once and
\* Close is then invoked once for it by a goroutine of its own; a write that
\* succeeds returns nil and no Close is invoked.
C7_CloseOnceAfterFailedWrite ==
    /\ []C7_Safety
    /\ \A n \in 1..MaxCalls :
        (Cardinality(FailedCalls) >= n) ~> (closeCalls >= n)

\* the finisher has returned the error and Close has not run yet
C7_Witness ==
    /\ Len(calls) = 1
    /\ calls[1].ret = "write failed"
    /\ closePending = 1 /\ closeCalls = 0

====
